---- MODULE Spec2Model ----
(***************************************************************************)
(* Model of classify_detect13.py: a Flask service with one analysis route. *)
(* POST /analyze validates a multipart upload, stores it under a generated *)
(* name, asks an external vision model for a one-line label, interprets    *)
(* the label with keyword rules, draws an annotation box when it can, and  *)
(* answers with a JSON body or an HTML fragment.                           *)
(*                                                                         *)
(* Python strings that the code inspects (strip, lower, split, `in`) are   *)
(* tuples of one-character strings, so that the string operations are      *)
(* computed character by character as Python computes them.  Strings the   *)
(* code only passes along (error messages, advice lines) are TLA+ strings. *)
(***************************************************************************)
EXTENDS Integers, Sequences, FiniteSets, TLC

VARIABLES GOOGLE_API_KEY, GEMINI_AVAILABLE, client, gemini_ready,
          pc, request, unique_filename, uploads, nreq,
          disease_name, disease_info, annotated_image_path, detections,
          response, recommendations, probe, stages

vars == <<GOOGLE_API_KEY, GEMINI_AVAILABLE, client, gemini_ready,
          pc, request, unique_filename, uploads, nreq,
          disease_name, disease_info, annotated_image_path, detections,
          response, recommendations, probe, stages>>

(***************************************************************************)
(* Bounds of the model.                                                    *)
(***************************************************************************)
\* number of requests the service receives in one behaviour
MaxRequests == 2
\* number of words concatenated into a label given to the pure functions
MaxWords == 3

(***************************************************************************)
(* Python values.                                                          *)
(***************************************************************************)
\* Python's None, kept apart from every string (no string is this tuple)
None == <<"None">>

\* the literal "unknown" of lines 76, 102 and 642
UNKNOWN == <<"u", "n", "k", "n", "o", "w", "n">>

\* str.strip() removes these; str.splitlines() breaks at the last two
Whitespace == {" ", "\t", "\n", "\r"}

LineBreaks == {"\n", "\r"}

UpperCase == <<"A","B","C","D","E","F","G","H","I","J","K","L","M",
               "N","O","P","Q","R","S","T","U","V","W","X","Y","Z">>

LowerCase == <<"a","b","c","d","e","f","g","h","i","j","k","l","m",
               "n","o","p","q","r","s","t","u","v","w","x","y","z">>

\* str.lower() on one character
LowerChar(c) ==
    IF \E i \in 1..26 : UpperCase[i] = c
    THEN LowerCase[CHOOSE i \in 1..26 : UpperCase[i] = c]
    ELSE c

\* str.lower()
Lower(s) == [i \in 1..Len(s) |-> LowerChar(s[i])]

\* `sub in s` for Python strings
Contains(s, sub) ==
    \E i \in 1..(Len(s) - Len(sub) + 1) : SubSeq(s, i, i + Len(sub) - 1) = sub

\* str.find(sub): the 0-based index of the first occurrence, -1 when absent
Find(s, sub) ==
    IF Contains(s, sub)
    THEN (CHOOSE i \in 1..(Len(s) - Len(sub) + 1) :
             /\ SubSeq(s, i, i + Len(sub) - 1) = sub
             /\ \A j \in 1..(i - 1) : SubSeq(s, j, j + Len(sub) - 1) # sub) - 1
    ELSE -1

\* str.strip(): drop leading and trailing whitespace
Strip(s) ==
    LET keep == {i \in 1..Len(s) : s[i] \notin Whitespace}
    IN  IF keep = {} THEN << >>
        ELSE LET lo == CHOOSE i \in keep : \A j \in keep : i <= j
                 hi == CHOOSE i \in keep : \A j \in keep : j <= i
             IN  SubSeq(s, lo, hi)

\* str.splitlines()[0] of a non-empty string: the text before the first break
FirstLine(s) ==
    LET brk == {i \in 1..Len(s) : s[i] \in LineBreaks}
    IN  IF brk = {} THEN s
        ELSE SubSeq(s, 1, (CHOOSE i \in brk : \A j \in brk : i <= j) - 1)

\* SplitFirstColon as str.rsplit(":", 1)
SplitFirstColon_Last(s) ==
    LET i == CHOOSE k \in 1..Len(s) :
                 s[k] = ":" /\ \A j \in (k + 1)..Len(s) : s[j] # ":"
    IN  <<SubSeq(s, 1, i - 1), SubSeq(s, i + 1, Len(s))>>

\* str.split(":", 1) of a string that contains a colon
SplitFirstColon(s) ==
    LET i == CHOOSE k \in 1..Len(s) :
                 s[k] = ":" /\ \A j \in 1..(k - 1) : s[j] # ":"
    IN  <<SubSeq(s, 1, i - 1), SubSeq(s, i + 1, Len(s))>>

\* os.path.splitext(p)[1]: the extension starts at the last dot of the last
\* path component, unless that component has only dots before it
SplitExt(p) ==
    LET seps == {i \in 1..Len(p) : p[i] = "/"}
        dots == {i \in 1..Len(p) : p[i] = "."}
        sepIndex == IF seps = {} THEN 0 ELSE CHOOSE i \in seps : \A j \in seps : j <= i
        dotIndex == IF dots = {} THEN 0 ELSE CHOOSE i \in dots : \A j \in dots : j <= i
    IN  IF dotIndex > sepIndex
           /\ \E k \in (sepIndex + 1)..(dotIndex - 1) : p[k] # "."
        THEN SubSeq(p, dotIndex, Len(p))
        ELSE << >>

(***************************************************************************)
(* Startup: lines 16-42.                                                   *)
(***************************************************************************)
\* the credential values the deployment may put on line 26 (the checked-in
\* file has the blank one)
Credentials == {"", "AIza-key"}

\* ConfigureGemini without the try of lines 30-38
ConfigureGemini_NoTry(key, available, ctorOk) ==
    IF key # "" /\ available
    THEN IF ctorOk
         THEN [client |-> "genai.Client", gemini_ready |-> TRUE, crashed |-> FALSE]
         ELSE [client |-> "None", gemini_ready |-> FALSE, crashed |-> TRUE]
    ELSE [client |-> "None", gemini_ready |-> FALSE, crashed |-> FALSE]

\* Lines 29-42.  ctorOk: genai.Client(api_key=...) returned without raising.
\* The result is the pair of module globals (client, gemini_ready); crashed
\* tells whether an exception left the module body.
ConfigureGemini(key, available, ctorOk) ==
    IF key # "" /\ available
    THEN IF ctorOk
         THEN [client |-> "genai.Client", gemini_ready |-> TRUE, crashed |-> FALSE]
         ELSE [client |-> "None", gemini_ready |-> FALSE, crashed |-> FALSE]
    ELSE [client |-> "None", gemini_ready |-> FALSE, crashed |-> FALSE]

(***************************************************************************)
(* Classifier client: lines 74-102.                                        *)
(***************************************************************************)
NO_PLANT_SENTENCE == <<"T", "h", "i", "s", " ", "i", "m", "a", "g", "e", " ", "c", "o", "n", "t", "a", "i", "n", "s", " ", "n", "o", " ", "p", "l", "a", "n", "t", "s", ".", " ", "T", "h", "e", "r", "e", "f", "o", "r", "e", ",", " ", "I", " ", "c", "a", "n", "n", "o", "t", " ", "p", "r", "o", "v", "i", "d", "e", " ", "a", " ", "d", "i", "a", "g", "n", "o", "s", "i", "s", ".">>

\* What the external model may answer: response.text is None or a string.
ResponseTexts ==
    { None,
      << >>,
      <<" ", "\n">>,
      <<"T", "o", "m", "a", "t", "o", " ", ":", " ", "L", "a", "t", "e", "_", "b", "l", "i", "g", "h", "t">>,
      <<" ", " ", "T", "o", "m", "a", "t", "o", " ", ":", " ", "h", "e", "a", "l", "t", "h", "y", " ", "\n", "I", "t", " ", "l", "o", "o", "k", "s", " ", "f", "i", "n", "e", ".">>,
      <<"W", "h", "e", "a", "t", " ", ":", " ", "K", "a", "r", "n", "a", "l", "_", "b", "u", "n", "t">>,
      <<"B", "e", "a", "n", ":", " ", "l", "e", "a", "f", " ", "s", "p", "o", "t", " ", "b", "l", "i", "g", "h", "t">>,
      <<"l", "e", "a", "f", " ", "r", "u", "s", "t">>,
      NO_PLANT_SENTENCE,
      <<"S", "o", "r", "r", "y", ",", " ", "N", "O", " ", "P", "L", "A", "N", "T", " ", "h", "e", "r", "e">> }

\* Outcomes of client.models.generate_content(...): it raises, or it returns
\* a response whose text is one of ResponseTexts.
CallOutcomes ==
    {[kind |-> "raise", text |-> None]} \cup
    {[kind |-> "return", text |-> t] : t \in ResponseTexts}

\* Lines 97-98 inside the try: response.text.strip() raises AttributeError on
\* None, and [0] raises IndexError when the stripped text has no line.
FirstLineOfResponse(text) ==
    IF text = None THEN [raised |-> TRUE, value |-> None]
    ELSE IF Strip(text) = << >> THEN [raised |-> TRUE, value |-> None]
    ELSE [raised |-> FALSE, value |-> FirstLine(Strip(text))]

\* classify_with_gemini without the try of lines 86-102
classify_with_gemini_NoTry(ready, openOk, outcome) ==
    IF ~ready
    THEN [raised |-> FALSE, value |-> UNKNOWN, opened |-> FALSE, called |-> FALSE]
    ELSE IF ~openOk
    THEN [raised |-> TRUE, value |-> None, opened |-> TRUE, called |-> FALSE]
    ELSE IF outcome.kind = "raise"
    THEN [raised |-> TRUE, value |-> None, opened |-> TRUE, called |-> TRUE]
    ELSE [raised |-> FirstLineOfResponse(outcome.text).raised,
          value |-> FirstLineOfResponse(outcome.text).value,
          opened |-> TRUE, called |-> TRUE]

\* Lines 74-102.  openOk: Image.open(path).convert("RGB") did not raise.
\* The result tells what the caller sees (raised, value) and what the call
\* touched (opened: the image was opened; called: a network call was made).
classify_with_gemini(ready, openOk, outcome) ==
    IF ~ready
    THEN [raised |-> FALSE, value |-> UNKNOWN, opened |-> FALSE, called |-> FALSE]
    ELSE IF ~openOk
    THEN [raised |-> FALSE, value |-> UNKNOWN, opened |-> TRUE, called |-> FALSE]
    ELSE IF outcome.kind = "raise"
    THEN [raised |-> FALSE, value |-> UNKNOWN, opened |-> TRUE, called |-> TRUE]
    ELSE IF FirstLineOfResponse(outcome.text).raised
    THEN [raised |-> FALSE, value |-> UNKNOWN, opened |-> TRUE, called |-> TRUE]
    ELSE [raised |-> FALSE, value |-> FirstLineOfResponse(outcome.text).value,
          opened |-> TRUE, called |-> TRUE]

(***************************************************************************)
(* Result interpreter: lines 104-134.                                      *)
(***************************************************************************)
HighWords == {<<"b", "l", "i", "g", "h", "t">>, <<"r", "o", "t">>, <<"w", "i", "l", "t">>, <<"c", "a", "n", "k", "e", "r">>}

MediumWords == {<<"s", "p", "o", "t">>, <<"r", "u", "s", "t">>, <<"m", "i", "l", "d", "e", "w">>}

\* SeverityOf with the tests of lines 115 and 117 in the other order
SeverityOf_MediumFirst(disease) ==
    IF Lower(disease) = <<"h", "e", "a", "l", "t", "h", "y">> THEN "Healthy"
    ELSE IF \E word \in MediumWords : Contains(Lower(disease), word) THEN "Medium"
    ELSE IF \E word \in HighWords : Contains(Lower(disease), word) THEN "High"
    ELSE "Low to Medium"

\* Lines 113-120: the severity of a disease name
SeverityOf(disease) ==
    IF Lower(disease) = <<"h", "e", "a", "l", "t", "h", "y">> THEN "Healthy"
    ELSE IF \E word \in HighWords : Contains(Lower(disease), word) THEN "High"
    ELSE IF \E word \in MediumWords : Contains(Lower(disease), word) THEN "Medium"
    ELSE "Low to Medium"

\* get_disease_info with the confidence of line 126 in the else branch too
get_disease_info_ReadyConfidence(disease_classification, ready) ==
    IF Contains(disease_classification, <<":">>)
    THEN LET parts == SplitFirstColon(disease_classification)
         IN  [plant_type |-> Strip(parts[1]),
              disease_name |-> Strip(parts[2]),
              severity_level |-> SeverityOf(Strip(parts[2])),
              confidence |-> IF ready THEN "High" ELSE "Low"]
    ELSE [plant_type |-> <<"U", "n", "k", "n", "o", "w", "n">>,
          disease_name |-> disease_classification,
          severity_level |-> "Unknown",
          confidence |-> IF ready THEN "High" ELSE "Low"]

\* Lines 104-134
get_disease_info(disease_classification, ready) ==
    IF Contains(disease_classification, <<":">>)
    THEN LET parts == SplitFirstColon(disease_classification)
         IN  [plant_type |-> Strip(parts[1]),
              disease_name |-> Strip(parts[2]),
              severity_level |-> SeverityOf(Strip(parts[2])),
              confidence |-> IF ready THEN "High" ELSE "Low"]
    ELSE [plant_type |-> <<"U", "n", "k", "n", "o", "w", "n">>,
          disease_name |-> disease_classification,
          severity_level |-> "Unknown",
          confidence |-> "Low"]

(***************************************************************************)
(* Recommendation generator: lines 784-833.  The advice lines are passed   *)
(* along unread, so each is one TLA+ string (without its leading emoji).   *)
(***************************************************************************)
HealthyAdvice ==
    <<"Great! Your plant appears to be healthy.",
      "Continue regular watering and maintenance schedule.",
      "Ensure adequate sunlight and proper ventilation.",
      "Monitor regularly for any changes in appearance.">>

BlightAdvice ==
    <<"Immediate action required - this is a serious fungal disease.",
      "Remove and destroy affected plant parts immediately.",
      "Apply appropriate fungicide treatment.",
      "Improve air circulation around the plant.",
      "Avoid overhead watering to reduce humidity.">>

SpotRustAdvice ==
    <<"Monitor the affected areas closely.",
      "Remove affected leaves to prevent spread.",
      "Consider applying fungicide if spreading continues.",
      "Water at soil level to avoid wet leaves.",
      "Ensure proper plant spacing for air circulation.">>

WiltAdvice ==
    <<"Check soil moisture - may indicate watering issues.",
      "Ensure proper temperature conditions.",
      "May require bacterial or fungal treatment.",
      "Remove severely affected parts.",
      "Quarantine from other plants if infectious.">>

FallbackAdvice ==
    <<"Continue monitoring the plant's condition.",
      "Research specific treatment for this condition.",
      "Maintain good plant hygiene practices.",
      "Ensure proper watering schedule.",
      "Check if plant is getting adequate light.",
      "Consult with local agricultural extension service if symptoms persist.">>

\* get_recommendations with `in` for the == of line 792
get_recommendations_HealthyIn(info) ==
    LET name == Lower(info.disease_name)
    IN  IF Contains(name, <<"h", "e", "a", "l", "t", "h", "y">>) THEN HealthyAdvice
        ELSE IF Contains(name, <<"b", "l", "i", "g", "h", "t">>) THEN BlightAdvice
        ELSE IF Contains(name, <<"s", "p", "o", "t">>) \/ Contains(name, <<"r", "u", "s", "t">>) THEN SpotRustAdvice
        ELSE IF Contains(name, <<"w", "i", "l", "t">>) THEN WiltAdvice
        ELSE FallbackAdvice

\* get_recommendations with the tests of lines 799 and 807 in the other order
get_recommendations_SpotFirst(info) ==
    LET name == Lower(info.disease_name)
    IN  IF name = <<"h", "e", "a", "l", "t", "h", "y">> THEN HealthyAdvice
        ELSE IF Contains(name, <<"s", "p", "o", "t">>) \/ Contains(name, <<"r", "u", "s", "t">>) THEN SpotRustAdvice
        ELSE IF Contains(name, <<"b", "l", "i", "g", "h", "t">>) THEN BlightAdvice
        ELSE IF Contains(name, <<"w", "i", "l", "t">>) THEN WiltAdvice
        ELSE FallbackAdvice

\* Lines 784-833
get_recommendations(info) ==
    LET name == Lower(info.disease_name)
    IN  IF name = <<"h", "e", "a", "l", "t", "h", "y">> THEN HealthyAdvice
        ELSE IF Contains(name, <<"b", "l", "i", "g", "h", "t">>) THEN BlightAdvice
        ELSE IF Contains(name, <<"s", "p", "o", "t">>) \/ Contains(name, <<"r", "u", "s", "t">>) THEN SpotRustAdvice
        ELSE IF Contains(name, <<"w", "i", "l", "t">>) THEN WiltAdvice
        ELSE FallbackAdvice

(***************************************************************************)
(* The /analyze route: lines 613-782.                                      *)
(***************************************************************************)
\* JSON null
JsonNull == <<"null">>

\* json.dumps / jsonify on a value that may be None
JsonValue(v) == IF v = None THEN JsonNull ELSE v

\* the uploads of the requests: (filename, size in bytes); the browser sends
\* an empty name with no bytes when no file was chosen
Files ==
    { [filename |-> << >>, size |-> 0],
      [filename |-> << >>, size |-> 1],
      [filename |-> <<"l", "e", "a", "f", ".", "p", "n", "g">>, size |-> 0],
      [filename |-> <<"l", "e", "a", "f", ".", "p", "n", "g">>, size |-> 1],
      [filename |-> <<".", "l", "e", "a", "f">>, size |-> 1] }

\* request.args.get("format"): None when the parameter is absent
Formats == {None, <<"j", "s", "o", "n">>, <<"h", "t", "m", "l">>}

\* request.headers.get("Accept", "")
Accepts == {<< >>, <<"t", "e", "x", "t", "/", "h", "t", "m", "l">>, <<"a", "p", "p", "l", "i", "c", "a", "t", "i", "o", "n", "/", "j", "s", "o", "n">>, <<"t", "e", "x", "t", "/", "h", "t", "m", "l", ",", " ", "A", "p", "p", "l", "i", "c", "a", "t", "i", "o", "n", "/", "J", "S", "O", "N">>}

\* request.files has no entry to look at when the field is absent
NoFile == [filename |-> << >>, size |-> 0]

\* the requests: has_file tells whether a multipart field named file exists
Requests ==
    {r \in [has_file : BOOLEAN, file : Files, format : Formats, accept : Accepts] :
        ~r.has_file => r.file = NoFile}

NoRequest == [has_file |-> FALSE, file |-> NoFile, format |-> None, accept |-> << >>]

\* (width, height) of the images cv2.imread can decode
ImageSizes == {<<1, 1>>, <<40, 41>>, <<100, 80>>}

\* the box margin of line 691
Margin == 20

\* FileIsFalsy as a test of the size of the upload
FileIsFalsy_BySize(file) == file.size = 0

\* werkzeug's FileStorage is falsy exactly when its filename is empty: the
\* `not file` of line 627
FileIsFalsy(file) == file.filename = << >>

\* ValidateUpload with the tests of lines 619 and 627 in the other order
ValidateUpload_EmptyFirst(req) ==
    IF FileIsFalsy(req.file) \/ req.file.filename = << >> THEN "empty"
    ELSE IF ~req.has_file THEN "no_file"
    ELSE "ok"

\* Lines 619-628: the verdict of validation
ValidateUpload(req) ==
    IF ~req.has_file THEN "no_file"
    ELSE IF FileIsFalsy(req.file) \/ req.file.filename = << >> THEN "empty"
    ELSE "ok"

\* Uuid4 as a fixed name
Uuid4_Fixed(n) == <<"uuid4-0">>

\* Line 632, uuid.uuid4(): a name no earlier request was given; n is the
\* number of the request
Uuid4(n) == <<"uuid4-" \o ToString(n)>>

\* Lines 631-633
UniqueFilename(req, n) ==
    Uuid4(n) \o (IF SplitExt(req.file.filename) # << >>
                 THEN SplitExt(req.file.filename) ELSE <<".", "j", "p", "g">>)

\* Lines 658 and 717: the requested representation is JSON
WantsJson(req) ==
    \/ req.format = <<"j", "s", "o", "n">>
    \/ Find(Lower(req.accept), <<"a", "p", "p", "l", "i", "c", "a", "t", "i", "o", "n", "/", "j", "s", "o", "n">>) # -1

\* SignalsNoPlant without the lower() of line 648
SignalsNoPlant_CaseSensitive(name) ==
    \/ Contains(name, <<"n", "o", " ", "p", "l", "a", "n", "t">>)
    \/ Contains(name, <<"c", "a", "n", "n", "o", "t", " ", "p", "r", "o", "v", "i", "d", "e", " ", "a", " ", "d", "i", "a", "g", "n", "o", "s", "i", "s">>)

\* Line 648: the label signals that the image has no plant
SignalsNoPlant(name) ==
    \/ Contains(Lower(name), <<"n", "o", " ", "p", "l", "a", "n", "t">>)
    \/ Contains(Lower(name), <<"c", "a", "n", "n", "o", "t", " ", "p", "r", "o", "v", "i", "d", "e", " ", "a", " ", "d", "i", "a", "g", "n", "o", "s", "i", "s">>)

\* jsonify(...), status: a JSON response
JsonResponse(status, doc) == [status |-> status, kind |-> "json", body |-> doc]

\* Lines 649-655
NoPlantDocument(name, info) ==
    [status |-> "no_plant_detected",
     message |-> name,
     detection |-> << >>,
     annotated_image |-> JsonValue(None),
     analysis |-> info]

\* Lines 661-677: the fragment shows the label and embeds the document
NoPlantHtml(name, doc) ==
    [status |-> 200, kind |-> "html",
     body |-> [title |-> "No Plant Detected", label |-> name, json |-> doc]]

\* Lines 648-678
RespondNoPlant(req, name, info) ==
    IF WantsJson(req)
    THEN JsonResponse(200, NoPlantDocument(name, info))
    ELSE NoPlantHtml(name, NoPlantDocument(name, info))

\* Lines 680-707.  The outcomes of the try block: the import fails, imread
\* gives None, a drawing call raises, imwrite raises, imwrite returns False
\* without writing, or the annotated copy is written.  The result is the
\* pair of locals and the set of files written.
AnnotateOutcomes ==
    {"import_error", "unreadable", "draw_error", "write_error", "write_false", "ok"}

\* Annotate with lines 704-705 moved before the imwrite of line 703
Annotate_AssignFirst(outcome, size, name, label) ==
    IF outcome \in {"ok", "write_false", "write_error"}
    THEN [annotated_image_path |-> <<"/", "u", "p", "l", "o", "a", "d", "s", "/">> \o <<"r", "e", "s", "u", "l", "t", "_">> \o name,
          detections |-> <<[bbox_xyxy |-> <<Margin, Margin,
                                            size[1] - Margin, size[2] - Margin>>,
                            disease |-> label]>>,
          written |-> IF outcome = "ok" THEN {<<"r", "e", "s", "u", "l", "t", "_">> \o name} ELSE {}]
    ELSE [annotated_image_path |-> None, detections |-> << >>, written |-> {}]

\* Lines 684-707
Annotate(outcome, size, name, label) ==
    IF outcome \in {"ok", "write_false"}
    THEN [annotated_image_path |-> <<"/", "u", "p", "l", "o", "a", "d", "s", "/">> \o <<"r", "e", "s", "u", "l", "t", "_">> \o name,
          detections |-> <<[bbox_xyxy |-> <<Margin, Margin,
                                            size[1] - Margin, size[2] - Margin>>,
                            disease |-> label]>>,
          written |-> IF outcome = "ok" THEN {<<"r", "e", "s", "u", "l", "t", "_">> \o name} ELSE {}]
    ELSE [annotated_image_path |-> None, detections |-> << >>, written |-> {}]

\* Lines 710-717
SuccessDocument(name, dets, path, info) ==
    [status |-> "success",
     disease |-> name,
     detection |-> dets,
     annotated_image |-> JsonValue(path),
     analysis |-> info,
     recommendations |-> get_recommendations(info)]

\* Lines 720-733
HeaderClass(info) ==
    IF info.severity_level \in {"High", "Medium"} THEN "warning" ELSE ""

SeverityClass(info) ==
    IF info.severity_level = "Healthy" THEN "severity-healthy"
    ELSE IF info.severity_level = "High" THEN "severity-high"
    ELSE IF info.severity_level = "Medium" THEN "severity-medium"
    ELSE "severity-low"

\* Lines 736-776: the fragment shows the label, the analysis, the image when
\* there is one, the advice, and embeds the document
SuccessHtml(name, path, info, doc) ==
    [status |-> 200, kind |-> "html",
     body |-> [title |-> "Analysis Complete",
               header_class |-> HeaderClass(info),
               label |-> name,
               plant_type |-> info.plant_type,
               condition |-> info.disease_name,
               severity_class |-> SeverityClass(info),
               severity |-> info.severity_level,
               confidence |-> info.confidence,
               img |-> IF path # None THEN <<path>> ELSE << >>,
               advice |-> get_recommendations(info),
               json |-> doc]]

\* Lines 709-777: the fragment is returned whatever the request asked for;
\* the route has no jsonify of this document
RespondSuccess(req, name, dets, path, info) ==
    SuccessHtml(name, path, info, SuccessDocument(name, dets, path, info))

\* InternalError without the status of line 782
InternalError_Status200(detail) ==
    JsonResponse(200, [error |-> "Internal server error", detail |-> detail])

\* Lines 779-782: the outermost handler
InternalError(detail) ==
    JsonResponse(500, [error |-> "Internal server error", detail |-> detail])

\* what file.save(filepath) may do: write the file; raise before the file
\* exists; raise after creating it; or return with no file on the disk
SaveOutcomes == {"ok", "raise", "raise_partial", "missing"}

\* str(e) of the exception file.save raises
SaveErrorDetail == "[Errno 28] No space left on device"

\* observations of the request in progress: the files of the image store
\* when the request arrived, whether the classifier opened the image and
\* called the network, how the classifier ended and what it returned, how
\* the annotator ended and the (width, height) of the image it put a box
\* on, and the exception that reached the outermost handler ("" if none)
NoProbe == [before |-> {}, opened |-> FALSE, called |-> FALSE,
            classifier |-> "none", returned |-> None, annotator |-> "none",
            size |-> <<0, 0>>, exc |-> ""]

NoResponse == [status |-> 0, kind |-> "none", body |-> [none |-> TRUE]]

NoInfo == [plant_type |-> << >>, disease_name |-> << >>,
           severity_level |-> "", confidence |-> ""]

\* how the classifier call ended, for the observations
ClassifierEnd(ready, openOk, outcome) ==
    IF ~ready THEN "unconfigured"
    ELSE IF ~openOk THEN "unreadable"
    ELSE IF outcome.kind = "raise" THEN "call_error"
    ELSE IF FirstLineOfResponse(outcome.text).raised THEN "bad_text"
    ELSE "ok"

\* the state of a route that is not serving a request
Idle ==
    /\ request' = NoRequest
    /\ unique_filename' = << >>
    /\ disease_name' = << >>
    /\ disease_info' = NoInfo
    /\ annotated_image_path' = None
    /\ detections' = << >>
    /\ response' = NoResponse
    /\ recommendations' = << >>
    /\ probe' = NoProbe
    /\ stages' = << >>

Init ==
    /\ GOOGLE_API_KEY \in Credentials
    /\ GEMINI_AVAILABLE \in BOOLEAN
    /\ client = "None"
    /\ gemini_ready = FALSE
    /\ pc = "boot"
    /\ request = NoRequest
    /\ unique_filename = << >>
    /\ uploads = {}
    /\ nreq = 0
    /\ disease_name = << >>
    /\ disease_info = NoInfo
    /\ annotated_image_path = None
    /\ detections = << >>
    /\ response = NoResponse
    /\ recommendations = << >>
    /\ probe = NoProbe
    /\ stages = << >>

\* Lines 16-42: the module body runs once
Startup ==
    /\ pc = "boot"
    /\ \E ctorOk \in BOOLEAN :
          LET c == ConfigureGemini(GOOGLE_API_KEY, GEMINI_AVAILABLE, ctorOk)
          IN  /\ client' = c.client
              /\ gemini_ready' = c.gemini_ready
              /\ pc' = IF c.crashed THEN "crashed" ELSE "idle"
    /\ UNCHANGED <<GOOGLE_API_KEY, GEMINI_AVAILABLE, recommendations, request, unique_filename,
                   uploads, nreq, disease_name, disease_info,
                   annotated_image_path, detections, response, probe, stages>>

\* Line 613: a POST /analyze arrives
Receive ==
    /\ pc = "idle"
    /\ nreq < MaxRequests
    /\ \E req \in Requests : request' = req
    /\ nreq' = nreq + 1
    /\ pc' = "validate"
    /\ stages' = <<"received">>
    /\ probe' = [probe EXCEPT !.before = uploads]
    /\ UNCHANGED <<GOOGLE_API_KEY, GEMINI_AVAILABLE, recommendations, client, gemini_ready,
                   unique_filename, uploads, disease_name, disease_info,
                   annotated_image_path, detections, response>>

\* Lines 619-634
Validate ==
    /\ pc = "validate"
    /\ IF ValidateUpload(request) = "no_file"
       THEN /\ response' = JsonResponse(400, [error |-> "No file uploaded"])
            /\ pc' = "done"
            /\ UNCHANGED unique_filename
       ELSE IF ValidateUpload(request) = "empty"
       THEN /\ response' = JsonResponse(400, [error |-> "Empty filename or no file selected"])
            /\ pc' = "done"
            /\ UNCHANGED unique_filename
       ELSE /\ unique_filename' = UniqueFilename(request, nreq)
            /\ pc' = "save"
            /\ UNCHANGED response
    /\ stages' = Append(stages, "validated")
    /\ UNCHANGED <<GOOGLE_API_KEY, GEMINI_AVAILABLE, recommendations, client, gemini_ready,
                   request, uploads, nreq, disease_name, disease_info,
                   annotated_image_path, detections, probe>>

\* Save without the existence test of lines 639-640
Save_NoVerify ==
    /\ pc = "save"
    /\ \E outcome \in SaveOutcomes :
          /\ uploads' = IF outcome \in {"ok", "raise_partial"}
                        THEN uploads \cup {unique_filename} ELSE uploads
          /\ IF outcome \in {"raise", "raise_partial"}
             THEN /\ response' = InternalError(SaveErrorDetail)
                  /\ probe' = [probe EXCEPT !.exc = SaveErrorDetail]
                  /\ pc' = "done"
             ELSE /\ pc' = "classify"
                  /\ UNCHANGED <<response, probe>>
    /\ stages' = Append(stages, "saved")
    /\ UNCHANGED <<GOOGLE_API_KEY, GEMINI_AVAILABLE, recommendations, client, gemini_ready,
                   request, unique_filename, nreq, disease_name, disease_info,
                   annotated_image_path, detections>>

\* Lines 636-640
Save ==
    /\ pc = "save"
    /\ \E outcome \in SaveOutcomes :
          /\ uploads' = IF outcome \in {"ok", "raise_partial"}
                        THEN uploads \cup {unique_filename} ELSE uploads
          /\ IF outcome \in {"raise", "raise_partial"}
             THEN /\ response' = InternalError(SaveErrorDetail)
                  /\ probe' = [probe EXCEPT !.exc = SaveErrorDetail]
                  /\ pc' = "done"
             ELSE IF unique_filename \notin uploads'
             THEN /\ response' = JsonResponse(500, [error |-> "Failed to save uploaded file"])
                  /\ pc' = "done"
                  /\ UNCHANGED probe
             ELSE /\ pc' = "classify"
                  /\ UNCHANGED <<response, probe>>
    /\ stages' = Append(stages, "saved")
    /\ UNCHANGED <<GOOGLE_API_KEY, GEMINI_AVAILABLE, recommendations, client, gemini_ready,
                   request, unique_filename, nreq, disease_name, disease_info,
                   annotated_image_path, detections>>

\* Line 642: classify_with_gemini(filepath) or "unknown".  An image of no
\* bytes cannot be opened.
Classify ==
    /\ pc = "classify"
    /\ \E openOk \in BOOLEAN, outcome \in CallOutcomes :
          LET r == classify_with_gemini(gemini_ready, openOk, outcome)
          IN  /\ request.file.size = 0 => ~openOk
              /\ probe' = [probe EXCEPT
                               !.opened = r.opened,
                               !.called = r.called,
                               !.classifier = ClassifierEnd(gemini_ready, openOk, outcome),
                               !.returned = r.value,
                               !.exc = IF r.raised THEN "classifier" ELSE ""]
              /\ IF r.raised
                 THEN /\ response' = InternalError("classifier")
                      /\ pc' = "done"
                      /\ UNCHANGED disease_name
                 ELSE /\ disease_name' = IF r.value \in {None, << >>}
                                         THEN UNKNOWN ELSE r.value
                      /\ pc' = "interpret"
                      /\ UNCHANGED response
    /\ stages' = Append(stages, "classified")
    /\ UNCHANGED <<GOOGLE_API_KEY, GEMINI_AVAILABLE, recommendations, client, gemini_ready,
                   request, unique_filename, uploads, nreq, disease_info,
                   annotated_image_path, detections>>

\* Lines 646-648
Interpret ==
    /\ pc = "interpret"
    /\ disease_info' = get_disease_info(disease_name, gemini_ready)
    /\ pc' = IF SignalsNoPlant(disease_name) THEN "no_plant" ELSE "annotate"
    /\ stages' = Append(stages, "interpreted")
    /\ UNCHANGED <<GOOGLE_API_KEY, GEMINI_AVAILABLE, recommendations, client, gemini_ready,
                   request, unique_filename, uploads, nreq, disease_name,
                   annotated_image_path, detections, response, probe>>

\* Lines 648-678
NoPlant ==
    /\ pc = "no_plant"
    /\ response' = RespondNoPlant(request, disease_name, disease_info)
    /\ pc' = "done"
    /\ stages' = Append(stages, "responded")
    /\ UNCHANGED <<GOOGLE_API_KEY, GEMINI_AVAILABLE, recommendations, client, gemini_ready,
                   request, unique_filename, uploads, nreq, disease_name,
                   disease_info, annotated_image_path, detections, probe>>

\* Lines 680-707.  imread decodes nothing from a file of no bytes.
AnnotateImage ==
    /\ pc = "annotate"
    /\ \E outcome \in AnnotateOutcomes, size \in ImageSizes :
          LET a == Annotate(outcome, size, unique_filename, disease_name)
          IN  /\ request.file.size = 0 => outcome \in {"import_error", "unreadable"}
              /\ annotated_image_path' = a.annotated_image_path
              /\ detections' = a.detections
              /\ uploads' = uploads \cup a.written
              /\ probe' = [probe EXCEPT
                               !.annotator = outcome,
                               !.size = IF a.detections = << >>
                                        THEN <<0, 0>> ELSE size]
    /\ pc' = "respond"
    /\ stages' = Append(stages, "annotated")
    /\ UNCHANGED <<GOOGLE_API_KEY, GEMINI_AVAILABLE, recommendations, client, gemini_ready,
                   request, unique_filename, nreq, disease_name, disease_info,
                   response>>

\* Lines 709-777
Respond ==
    /\ pc = "respond"
    /\ response' = RespondSuccess(request, disease_name, detections,
                                  annotated_image_path, disease_info)
    /\ recommendations' = get_recommendations(disease_info)
    /\ pc' = "done"
    /\ stages' = Append(stages, "responded")
    /\ UNCHANGED <<GOOGLE_API_KEY, GEMINI_AVAILABLE, client, gemini_ready,
                   request, unique_filename, uploads, nreq, disease_name,
                   disease_info, annotated_image_path, detections, probe>>

\* the response has left; the route serves the next request
Finish ==
    /\ pc = "done"
    /\ pc' = "idle"
    /\ Idle
    /\ UNCHANGED <<GOOGLE_API_KEY, GEMINI_AVAILABLE, client, gemini_ready,
                   uploads, nreq>>

Next ==
    \/ Startup
    \/ Receive
    \/ Validate
    \/ Save
    \/ Classify
    \/ Interpret
    \/ NoPlant
    \/ AnnotateImage
    \/ Respond
    \/ Finish

Spec == Init /\ [][Next]_vars

(***************************************************************************)
(* The interpreter and the recommendation generator as pure functions: the *)
(* labels are all concatenations of at most MaxWords words, and the two    *)
(* actions apply the functions one after the other.                        *)
(***************************************************************************)
Words ==
    { <<"T", "o", "m", "a", "t", "o">>, <<" ">>, <<"\t">>, <<":">>, <<"h", "e", "a", "l", "t", "h", "y">>, <<"H", "e", "a", "l", "t", "h", "y">>, <<"L", "a", "t", "e", "_", "b", "l", "i", "g", "h", "t">>,
      <<"l", "e", "a", "f", " ", "s", "p", "o", "t">>, <<"R", "o", "t">>, <<"w", "i", "l", "t">>, <<"c", "a", "n", "k", "e", "r">>, <<"r", "u", "s", "t">>, <<"M", "i", "l", "d", "e", "w">>, <<"b", "u", "n", "t">> }

RECURSIVE Labels(_)
Labels(n) ==
    IF n = 0 THEN {<< >>}
    ELSE Labels(n - 1) \cup {l \o w : l \in Labels(n - 1), w \in Words}

InitInfo ==
    /\ GOOGLE_API_KEY = ""
    /\ GEMINI_AVAILABLE = FALSE
    /\ client = "None"
    /\ gemini_ready \in BOOLEAN
    /\ pc = "label"
    /\ request = NoRequest
    /\ unique_filename = << >>
    /\ uploads = {}
    /\ nreq = 0
    /\ disease_name \in Labels(MaxWords)
    /\ disease_info = NoInfo
    /\ annotated_image_path = None
    /\ detections = << >>
    /\ response = NoResponse
    /\ recommendations = << >>
    /\ probe = NoProbe
    /\ stages = << >>

\* get_disease_info(disease_name) is called
InterpretLabel ==
    /\ pc = "label"
    /\ disease_info' = get_disease_info(disease_name, gemini_ready)
    /\ pc' = "info"
    /\ UNCHANGED <<GOOGLE_API_KEY, GEMINI_AVAILABLE, recommendations, client, gemini_ready,
                   request, unique_filename, uploads, nreq, disease_name,
                   annotated_image_path, detections, response, probe, stages>>

\* get_recommendations(disease_info) is called on the interpreted label
RecommendLabel ==
    /\ pc = "info"
    /\ recommendations' = get_recommendations(disease_info)
    /\ pc' = "advice"
    /\ UNCHANGED <<GOOGLE_API_KEY, GEMINI_AVAILABLE, client, gemini_ready,
                   request, unique_filename, uploads, nreq, disease_name,
                   disease_info, annotated_image_path, detections, response,
                   probe, stages>>

NextInfo ==
    \/ InterpretLabel
    \/ RecommendLabel

SpecInfo == InitInfo /\ [][NextInfo]_vars

(***************************************************************************)
(* The claims.  Their preconditions are written from the wording of the    *)
(* claim, not with the operators of the route.                             *)
(***************************************************************************)
\* the document a 200 response carries: the JSON body, or the document the
\* HTML fragment embeds
Carried == IF response.kind = "json" THEN response.body ELSE response.body.json

\* the request asks for JSON: format=json, or an Accept header that names
\* the media type application/json (media types are case-insensitive)
AsksForJson ==
    \/ request.format = <<"j", "s", "o", "n">>
    \/ Contains(Lower(request.accept), <<"a", "p", "p", "l", "i", "c", "a", "t", "i", "o", "n", "/", "j", "s", "o", "n">>)

\* the label says there is no plant
SaysNoPlant(label) ==
    \/ Contains(Lower(label), <<"n", "o", " ", "p", "l", "a", "n", "t">>)
    \/ Contains(Lower(label), <<"c", "a", "n", "n", "o", "t", " ", "p", "r", "o", "v", "i", "d", "e", " ", "a", " ", "d", "i", "a", "g", "n", "o", "s", "i", "s">>)

\* the request got past validation, its upload is stored, and the classifier
\* was invoked
Classified == probe.classifier # "none"

\* the exceptions the annotation block can raise
AnnotatorExceptions == {"import_error", "unreadable", "draw_error", "write_error"}

\* C1 (as claimed): a success response is a JSON body when the request asks
\* for JSON and an HTML fragment otherwise, and both carry the full document.
C1_SuccessIsNegotiated ==
    (pc = "done" /\ Classified /\ ~SaysNoPlant(disease_name)) =>
        /\ response.status = 200
        /\ response.kind = (IF AsksForJson THEN "json" ELSE "html")
        /\ Carried = SuccessDocument(disease_name, detections,
                                     annotated_image_path, disease_info)

\* C2: a label that says there is no plant gives the no-plant document (no
\* detection, null image, no recommendations), as JSON when the request asks
\* for JSON and as HTML otherwise, and the annotator never runs for it.
C2_NoPlantResponse ==
    (Classified /\ SaysNoPlant(disease_name)) =>
        /\ pc \notin {"annotate", "respond"}
        /\ probe.annotator = "none"
        /\ (<<"r", "e", "s", "u", "l", "t", "_">> \o unique_filename) \notin uploads
        /\ pc = "done" =>
              /\ response.status = 200
              /\ response.kind = (IF AsksForJson THEN "json" ELSE "html")
              /\ Carried.status = "no_plant_detected"
              /\ Carried.message = disease_name
              /\ Carried.detection = << >>
              /\ Carried.annotated_image = JsonNull
              /\ "recommendations" \notin DOMAIN Carried

C2_Witness ==
    /\ pc = "done"
    /\ disease_name = NO_PLANT_SENTENCE
    /\ request.format = None
    /\ response.kind = "json"

\* C3: a request without the field file is answered 400 with the JSON body
\* {"error": "No file uploaded"} whatever representation it asks for.
C3_NoFileField ==
    (pc = "done" /\ ~request.has_file) =>
        response = [status |-> 400, kind |-> "json",
                    body |-> [error |-> "No file uploaded"]]

C3_Witness ==
    /\ pc = "done"
    /\ ~request.has_file
    /\ request.accept = <<"t", "e", "x", "t", "/", "h", "t", "m", "l">>
    /\ response.status = 400

\* C4 (as claimed): a file field whose file has no bytes or no name is
\* answered 400 {"error": "Empty filename or no file selected"}.
C4_ZeroByteOrEmptyName ==
    (pc = "done" /\ request.has_file
       /\ (request.file.size = 0 \/ request.file.filename = << >>)) =>
        response = [status |-> 400, kind |-> "json",
                    body |-> [error |-> "Empty filename or no file selected"]]

\* C4 (amended): a file field is answered 400 {"error": "Empty filename or
\* no file selected"} exactly when the name of its file is empty; a file of
\* no bytes that has a name passes validation.
C4_EmptyName ==
    (pc = "done" /\ request.has_file) =>
        ((request.file.filename = << >>)
           <=> response = [status |-> 400, kind |-> "json",
                           body |-> [error |-> "Empty filename or no file selected"]])

C4_Witness ==
    /\ pc = "done"
    /\ request.has_file
    /\ request.file.filename = << >>
    /\ request.file.size = 1
    /\ response.status = 400

\* C5: once the upload is validated and stored, the response is 200 however
\* the classifier and the annotator fail; a failed classifier gives the
\* label "unknown", a failed annotator gives a null image and no detection.
C5_FailuresDegrade ==
    (pc = "done" /\ Classified) =>
        /\ response.status = 200
        /\ probe.classifier # "ok" => disease_name = UNKNOWN
        /\ probe.annotator \in AnnotatorExceptions =>
              /\ Carried.annotated_image = JsonNull
              /\ Carried.detection = << >>

C5_Witness ==
    /\ pc = "done"
    /\ probe.classifier = "call_error"
    /\ probe.annotator = "write_error"
    /\ response.status = 200

\* C6 (as claimed): every exception raised inside the route, the annotation
\* block included, ends in 500 {"error": "Internal server error", ...}.
C6_EveryExceptionIs500 ==
    (pc = "done" /\ (probe.exc # "" \/ probe.annotator \in AnnotatorExceptions)) =>
        /\ response.status = 500
        /\ response.body.error = "Internal server error"

\* C6 (amended): a request has a response exactly when it is done; an
\* exception that reaches the outermost handler (file.save raising) ends in
\* 500 {"error": "Internal server error", "detail": <message>}, an exception
\* of the annotation block is caught there and the answer is 200, and a file
\* missing after a save that did not raise ends in 500 {"error": "Failed to
\* save uploaded file"}.
C6_Responses ==
    /\ (response # NoResponse) <=> (pc = "done")
    /\ (pc = "done" /\ probe.exc # "") =>
          response = [status |-> 500, kind |-> "json",
                      body |-> [error |-> "Internal server error",
                                detail |-> probe.exc]]
    /\ (pc = "done" /\ probe.annotator \in AnnotatorExceptions) =>
          response.status = 200
    /\ (pc = "done" /\ probe.exc = "" /\ stages[Len(stages)] = "saved") =>
          /\ unique_filename \notin uploads
          /\ response = [status |-> 500, kind |-> "json",
                         body |-> [error |-> "Failed to save uploaded file"]]

C6_Witness ==
    /\ pc = "done"
    /\ probe.exc = SaveErrorDetail
    /\ response.status = 500

\* C7: classify_with_gemini never raises and returns a non-empty string;
\* every failure (not configured, unreadable image, exception of the call,
\* text missing, empty or blank) returns "unknown", and a text of several
\* lines returns its first line.
C7_ClassifierTotal ==
    /\ probe.exc # "classifier"
    /\ Classified =>
          /\ probe.returned # None
          /\ probe.returned # << >>
          /\ \A i \in 1..Len(probe.returned) : probe.returned[i] \notin LineBreaks
          /\ probe.classifier # "ok" => probe.returned = UNKNOWN

C7_Witness ==
    /\ probe.classifier = "bad_text"
    /\ probe.returned = UNKNOWN
    /\ pc = "interpret"

DiseasePart(label) ==
    LET i == CHOOSE k \in 1..Len(label) :
                 label[k] = ":" /\ \A j \in 1..(k - 1) : label[j] # ":"
    IN  Lower(Strip(SubSeq(label, i + 1, Len(label))))

HasHighWord(d) ==
    \E w \in {<<"b", "l", "i", "g", "h", "t">>, <<"r", "o", "t">>, <<"w", "i", "l", "t">>, <<"c", "a", "n", "k", "e", "r">>} : Contains(d, w)

HasMediumWord(d) ==
    \E w \in {<<"s", "p", "o", "t">>, <<"r", "u", "s", "t">>, <<"m", "i", "l", "d", "e", "w">>} : Contains(d, w)

\* C9: for a label with a colon the severity follows the strict priority
\* healthy, then a High word, then a Medium word, then "Low to Medium"; a
\* disease with a High word and a Medium word is High.
C9_SeverityPriority ==
    (pc = "info" /\ \E k \in 1..Len(disease_name) : disease_name[k] = ":") =>
        LET d == DiseasePart(disease_name)
        IN  /\ d = <<"h", "e", "a", "l", "t", "h", "y">> => disease_info.severity_level = "Healthy"
            /\ (d # <<"h", "e", "a", "l", "t", "h", "y">> /\ HasHighWord(d)) =>
                  disease_info.severity_level = "High"
            /\ (d # <<"h", "e", "a", "l", "t", "h", "y">> /\ ~HasHighWord(d) /\ HasMediumWord(d)) =>
                  disease_info.severity_level = "Medium"
            /\ (d # <<"h", "e", "a", "l", "t", "h", "y">> /\ ~HasHighWord(d) /\ ~HasMediumWord(d)) =>
                  disease_info.severity_level = "Low to Medium"

C9_Witness ==
    /\ pc = "info"
    /\ \E k \in 1..Len(disease_name) : disease_name[k] = ":"
    /\ HasHighWord(DiseasePart(disease_name))
    /\ HasMediumWord(DiseasePart(disease_name))
    /\ disease_info.severity_level = "High"

\* a string with no whitespace at either end
Trimmed(s) == s = << >> \/ (s[1] \notin Whitespace /\ s[Len(s)] \notin Whitespace)

\* C10: get_disease_info answers every label; with a colon the label is
\* split at its first colon into plant_type and disease_name, both trimmed,
\* and confidence is High iff the classifier is configured; without a colon
\* plant_type is "Unknown", disease_name the label, severity_level "Unknown"
\* and confidence "Low" whatever the flag.
C10_InterpreterTotal ==
    pc = "info" =>
        IF \E k \in 1..Len(disease_name) : disease_name[k] = ":"
        THEN /\ \E k \in 1..Len(disease_name) :
                   /\ disease_name[k] = ":"
                   /\ \A j \in 1..(k - 1) : disease_name[j] # ":"
                   /\ disease_info.plant_type = Strip(SubSeq(disease_name, 1, k - 1))
                   /\ disease_info.disease_name =
                          Strip(SubSeq(disease_name, k + 1, Len(disease_name)))
             /\ Trimmed(disease_info.plant_type)
             /\ Trimmed(disease_info.disease_name)
             /\ disease_info.severity_level \in {"Healthy", "High", "Medium", "Low to Medium"}
             /\ disease_info.confidence = "High" <=> gemini_ready
        ELSE disease_info = [plant_type |-> <<"U", "n", "k", "n", "o", "w", "n">>,
                             disease_name |-> disease_name,
                             severity_level |-> "Unknown",
                             confidence |-> "Low"]

C10_Witness ==
    /\ pc = "info"
    /\ gemini_ready
    /\ disease_name = <<"T", "o", "m", "a", "t", "o">> \o <<":">> \o <<":">>
    /\ disease_info.plant_type = <<"T", "o", "m", "a", "t", "o">>
    /\ disease_info.disease_name = <<":">>
    /\ disease_info.confidence = "High"
\* the five fixed lists of advice
AdviceLists == {HealthyAdvice, BlightAdvice, SpotRustAdvice, WiltAdvice, FallbackAdvice}

\* C11: get_recommendations answers every disease name, the empty one too,
\* with exactly one of the five fixed lists, chosen by the first match on the
\* lower-cased name: exactly "healthy", then "blight", then "spot" or "rust",
\* then "wilt", else the fallback list.
C11_RecommendationPriority ==
    pc = "advice" =>
        LET n == Lower(disease_info.disease_name)
            blight == Contains(n, <<"b", "l", "i", "g", "h", "t">>)
            spotrust == Contains(n, <<"s", "p", "o", "t">>) \/ Contains(n, <<"r", "u", "s", "t">>)
            wilt == Contains(n, <<"w", "i", "l", "t">>)
        IN  /\ recommendations \in AdviceLists
            /\ n = <<"h", "e", "a", "l", "t", "h", "y">> => recommendations = HealthyAdvice
            /\ (n # <<"h", "e", "a", "l", "t", "h", "y">> /\ blight) => recommendations = BlightAdvice
            /\ (n # <<"h", "e", "a", "l", "t", "h", "y">> /\ ~blight /\ spotrust) =>
                  recommendations = SpotRustAdvice
            /\ (n # <<"h", "e", "a", "l", "t", "h", "y">> /\ ~blight /\ ~spotrust /\ wilt) =>
                  recommendations = WiltAdvice
            /\ (n # <<"h", "e", "a", "l", "t", "h", "y">> /\ ~blight /\ ~spotrust /\ ~wilt) =>
                  recommendations = FallbackAdvice

C11_Witness ==
    /\ pc = "advice"
    /\ Contains(Lower(disease_info.disease_name), <<"s", "p", "o", "t">>)
    /\ Contains(Lower(disease_info.disease_name), <<"w", "i", "l", "t">>)
    /\ Contains(Lower(disease_info.disease_name), <<"b", "l", "i", "g", "h", "t">>)
    /\ recommendations = BlightAdvice
\* C12 (as claimed): on the success branch the image is non-null iff there
\* is exactly one detection; an annotation that succeeds reports the box
\* [20, 20, w-20, h-20] with the label and "/uploads/result_" followed by the
\* unique upload name; an annotation that fails at any step, the write
\* included, reports a null image and no detection.
C12_AnnotationResult ==
    (pc = "done" /\ probe.annotator # "none") =>
        /\ (Carried.annotated_image # JsonNull) <=> (Len(Carried.detection) = 1)
        /\ probe.annotator = "ok" =>
              /\ Carried.detection =
                     <<[bbox_xyxy |-> <<20, 20, probe.size[1] - 20, probe.size[2] - 20>>,
                        disease |-> disease_name]>>
              /\ Carried.annotated_image =
                     <<"/", "u", "p", "l", "o", "a", "d", "s", "/", "r", "e", "s", "u", "l", "t", "_">> \o unique_filename
              /\ (<<"r", "e", "s", "u", "l", "t", "_">> \o unique_filename) \in uploads
        /\ probe.annotator # "ok" =>
              /\ Carried.annotated_image = JsonNull
              /\ Carried.detection = << >>

\* what C12 says, apart from a write that fails without raising
C12_ExceptUnraisedWriteFailure ==
    probe.annotator # "write_false" => C12_AnnotationResult
\* the stages of a request that is answered on the success branch
SuccessStages ==
    <<"received", "validated", "saved", "classified", "interpreted",
      "annotated", "responded">>

\* the stages of a request that is answered on the no-plant branch
NoPlantStages ==
    <<"received", "validated", "saved", "classified", "interpreted", "responded">>

\* s is the beginning of t
IsPrefix(s, t) == Len(s) <= Len(t) /\ s = SubSeq(t, 1, Len(s))

\* C13: the stages of a request come in one order: the classifier runs only
\* after the upload is in the image store, the interpreter only after the
\* classifier, the annotator only after the interpreter and only when the
\* label does not say no plant, the recommendations only after the
\* annotation attempt, and the response last.
C13_StageOrder ==
    /\ IsPrefix(stages, SuccessStages) \/ IsPrefix(stages, NoPlantStages)
    /\ Classified => unique_filename \in uploads
    /\ disease_info # NoInfo => Classified
    /\ probe.annotator # "none" =>
          (disease_info # NoInfo /\ ~SaysNoPlant(disease_name))
    /\ recommendations # << >> =>
          (probe.annotator # "none" /\ response # NoResponse)
    /\ response # NoResponse => pc = "done"

C13_Witness ==
    /\ pc = "done"
    /\ stages = SuccessStages
    /\ recommendations # << >>
\* C14 (as claimed): every reported box [x1, y1, x2, y2] is a rectangle
\* inside the image of width w and height h that was annotated:
\* 0 <= x1 < x2 <= w and 0 <= y1 < y2 <= h.
C14_BoxInsideImage ==
    (pc = "done" /\ probe.annotator # "none") =>
        \A i \in 1..Len(Carried.detection) :
            LET box == Carried.detection[i].bbox_xyxy
                w == probe.size[1]
                h == probe.size[2]
            IN  /\ 0 <= box[1] /\ box[1] < box[3] /\ box[3] <= w
                /\ 0 <= box[2] /\ box[2] < box[4] /\ box[4] <= h
\* C15 (as claimed): for every label the advice is the healthy list iff the
\* severity of the analysis is "Healthy".
C15_HealthAgrees ==
    pc = "advice" =>
        ((recommendations = HealthyAdvice)
            <=> (disease_info.severity_level = "Healthy"))

\* C15 (amended): for every label with a colon the advice is the healthy
\* list iff the severity is "Healthy"; for a label without a colon the
\* severity is "Unknown" and the advice is the healthy list iff the label,
\* lower-cased, is exactly "healthy".
C15_HealthAgreesWithColon ==
    pc = "advice" =>
        IF \E k \in 1..Len(disease_name) : disease_name[k] = ":"
        THEN (recommendations = HealthyAdvice)
                <=> (disease_info.severity_level = "Healthy")
        ELSE /\ disease_info.severity_level = "Unknown"
             /\ (recommendations = HealthyAdvice)
                   <=> (Lower(disease_name) = <<"h", "e", "a", "l", "t", "h", "y">>)

C15_Witness ==
    /\ pc = "advice"
    /\ disease_name = <<"T", "o", "m", "a", "t", "o">> \o <<":">> \o <<"H", "e", "a", "l", "t", "h", "y">>
    /\ disease_info.severity_level = "Healthy"
    /\ recommendations = HealthyAdvice
\* the name of the annotated copy of the request in progress
ResultName == <<"r", "e", "s", "u", "l", "t", "_">> \o unique_filename

\* C16 (as claimed): a request answered 400 leaves the image store as it was
\* and runs neither the classifier nor the annotator; a request that passes
\* validation adds exactly one uploaded file and at most one annotated file,
\* under new and distinct names; no file of an earlier request is deleted or
\* overwritten.
C16_ExactlyOneUpload ==
    /\ probe.before \subseteq uploads
    /\ (pc = "done" /\ response.status = 400) =>
          /\ uploads = probe.before
          /\ probe.classifier = "none"
          /\ probe.annotator = "none"
    /\ (pc = "done" /\ unique_filename # << >>) =>
          /\ unique_filename \notin probe.before
          /\ ResultName \notin probe.before
          /\ unique_filename # ResultName
          /\ unique_filename \in uploads
          /\ (uploads \ probe.before) \subseteq {unique_filename, ResultName}

\* C16 (amended): as claimed, but a request that passes validation adds at
\* most one uploaded file: exactly one once the save is verified, possibly
\* none when file.save raises or the file is missing afterwards; the
\* annotated file is there only when the annotator wrote it.
C16_StoreFrame ==
    /\ probe.before \subseteq uploads
    /\ (pc = "done" /\ response.status = 400) =>
          /\ uploads = probe.before
          /\ probe.classifier = "none"
          /\ probe.annotator = "none"
    /\ unique_filename # << >> =>
          /\ unique_filename \notin probe.before
          /\ ResultName \notin probe.before
          /\ unique_filename # ResultName
          /\ (uploads \ probe.before) \subseteq {unique_filename, ResultName}
          /\ Classified => unique_filename \in uploads
          /\ ResultName \in uploads => probe.annotator = "ok"

C16_Witness ==
    /\ pc = "done"
    /\ probe.before # {}
    /\ uploads \ probe.before = {unique_filename, ResultName}
    /\ Cardinality(uploads) = Cardinality(probe.before) + 2
\* C17: when the classifier is not configured or fails, a request whose
\* upload is stored is answered on the success branch: status "success",
\* disease "unknown", analysis Unknown / unknown / Unknown / Low, the
\* fallback advice, and the annotator runs with the label "unknown".
C17_UnknownIsSuccess ==
    (Classified /\ probe.classifier # "ok") =>
        /\ pc # "no_plant"
        /\ pc = "done" =>
              /\ response.status = 200
              /\ Carried.status = "success"
              /\ Carried.disease = <<"u", "n", "k", "n", "o", "w", "n">>
              /\ Carried.analysis = [plant_type |-> <<"U", "n", "k", "n", "o", "w", "n">>,
                                     disease_name |-> <<"u", "n", "k", "n", "o", "w", "n">>,
                                     severity_level |-> "Unknown",
                                     confidence |-> "Low"]
              /\ Carried.recommendations = FallbackAdvice
              /\ probe.annotator # "none"
              /\ \A i \in 1..Len(Carried.detection) :
                    Carried.detection[i].disease = <<"u", "n", "k", "n", "o", "w", "n">>

C17_Witness ==
    /\ pc = "done"
    /\ gemini_ready
    /\ probe.classifier = "call_error"
    /\ probe.annotator = "ok"
    /\ Len(detections) = 1
    /\ detections[1].disease = <<"u", "n", "k", "n", "o", "w", "n">>
====
